---- MODULE Spec2Model ----
(***************************************************************************)
(* pybioclim, src/get_data.py: point, radius-average and radius-variance   *)
(* sampling of BIOCLIM raster layers, with the module-level dataset cache. *)
(*                                                                         *)
(* Units: latitudes and longitudes are whole degrees, radii are whole      *)
(* kilometres.  A floating-point number is an exact rational [n, d] in     *)
(* lowest terms; Python's None is the record None.  coords.py,             *)
(* read_headers.py and config.py are not part of the sources at hand:      *)
(* xy_coords, points_within_distance, read_header and find_data follow     *)
(* the design document (sections 4.1, 4.2 and 6).                          *)
(***************************************************************************)
EXTENDS Integers, Sequences, FiniteSets, TLC

VARIABLES
    disk,             \* resolvable file |-> the raster array stored in it
    lat_lons,         \* the caller's list of (lat, lon) points
    layer,            \* the layer name a sampling session works on
    loaded_datasets,  \* get_data.loaded_datasets: file |-> open dataset
    metadata,         \* read_headers.metadata: name |-> header fields
    opens,            \* file |-> number of gdal.Open calls
    finds,            \* file |-> number of find_data calls
    headerReads,      \* name |-> number of read_header calls
    arrayReads,       \* file |-> number of ReadAsArray calls
    ncalls,           \* calls made so far
    last,             \* the last call: operation, arguments, outcome
    tpc,              \* thread |-> position inside get_dataset
    tfile,            \* thread |-> its local variable file
    tpath,            \* thread |-> its local variable path
    tret              \* thread |-> the dataset get_dataset returned to it

vars == <<disk, lat_lons, layer, loaded_datasets, metadata, opens, finds,
          headerReads, arrayReads, ncalls, last, tpc, tfile, tpath, tret>>

-----------------------------------------------------------------------------
(* Bounds of the model *)

MaxCalls == 2

MaxLen == 2

NThreads == 2

-----------------------------------------------------------------------------
(* Python values *)

None == [tag |-> "None"]

NoExc == [tag |-> "NoExc"]

IndexError == [tag |-> "IndexError"]

KeyError == [tag |-> "KeyError"]

Abs(x) == IF x < 0 THEN -x ELSE x

RECURSIVE GCD(_, _)
GCD(a, b) == IF b = 0 THEN a ELSE GCD(b, a % b)

\* the rational n/d (d > 0) in lowest terms: a floating-point value
Rational(n, d) ==
    LET g == GCD(Abs(n), d)
    IN  [tag |-> "float", n |-> n \div g, d |-> d \div g]

\* float(x) of an integer x
float(x) == Rational(x, 1)

\* a <= b on floating-point values
FloatLeq(a, b) == a.n * b.d <= b.n * a.d

RECURSIVE sum(_)
sum(values) ==
    IF values = <<>> THEN 0 ELSE Head(values) + sum(Tail(values))

RECURSIVE SumSq(_)
SumSq(values) ==
    IF values = <<>> THEN 0
    ELSE Head(values) * Head(values) + SumSq(Tail(values))

\* a mean that divides by one too many
MeanBroken(values) == Rational(sum(values), Len(values) + 1)

\* line 95: sum(values)/float(len(values))
Mean(values) == Rational(sum(values), Len(values))

\* line 131, numpy.var: the mean of the squared deviations from the mean,
\* (n * sum(x^2) - sum(x)^2) / n^2
Variance(values) ==
    Rational(Len(values) * SumSq(values) - sum(values) * sum(values),
             Len(values) * Len(values))

-----------------------------------------------------------------------------
(* File names: a name is the sequence of its parts, <<"bio1">> or          *)
(* <<"bio1", ".bil">>                                                      *)

endswith_bil(file) == file # <<>> /\ file[Len(file)] = ".bil"

\* if not file.endswith('.bil'): file += '.bil'
with_bil(file) == IF endswith_bil(file) THEN file ELSE Append(file, ".bil")

\* file[:-len('.bil')]
without_bil(file) == SubSeq(file, 1, Len(file) - 1)

-----------------------------------------------------------------------------
(* The data the collaborators serve: two layers on disk, one name that is  *)
(* not, and the rasters a file may hold                                    *)

LayerNames == {<<"bio1">>, <<"alt">>}

FileNames == {<<"bio1">>, <<"bio1", ".bil">>, <<"alt">>, <<"bio99">>}

BilFiles == {with_bil(f) : f \in FileNames}

HeaderNames == {without_bil(f) : f \in BilFiles}

DataFiles == {with_bil(n) : n \in LayerNames}

\* RasterYSize, RasterXSize of the files on disk
RasterSize == <<1, 3>>

\* the no-data default of extract_attributes
DefaultNoData == -9999

CellValues == {DefaultNoData, 0, 4}

Row == [1..RasterSize[2] -> CellValues]

Rasters == [1..RasterSize[1] -> Row]

\* the .hdr sidecar of a layer: upper-left corner and cell size in degrees,
\* a strip of cells from latitude -60 to -90; alt.hdr names a no-data
\* value, bio1.hdr does not
Header(name) ==
    IF name = <<"alt">>
    THEN [ulymap |-> -60, ulxmap |-> 0, ydim |-> 30, xdim |-> 30, nodata |-> 0]
    ELSE [ulymap |-> -60, ulxmap |-> 0, ydim |-> 30, xdim |-> 30]

\* the points a caller asks about: on a grid line and off, on latitude -60
\* and south of it, west of the raster, at its east edge, far north of it
Points ==
    {<<-60, 30>>, <<-60, 40>>, <<-70, 30>>, <<-60, -10>>, <<-60, 60>>,
     <<70, 30>>}

\* the radii a caller asks about, in km: cells are 555 km wide at -60
Radii == {0, 500, 1200, 2300}

RECURSIVE SeqsUpTo(_, _)
SeqsUpTo(S, n) ==
    IF n = 0 THEN {<<>>}
    ELSE LET shorter == SeqsUpTo(S, n - 1)
         IN  shorter \cup {Append(q, x) : q \in shorter, x \in S}

PointLists == SeqsUpTo(Points, MaxLen)

-----------------------------------------------------------------------------
(* config.find_data, read_headers.read_header, gdal *)

\* config.find_data: the path of the file in the working directory or the
\* package data, None when it is in neither
find_data(file) ==
    IF file \in DataFiles THEN [tag |-> "path", file |-> file] ELSE None

SearchedLocations == "working directory or package data"

\* read_headers.read_header(name): metadata[name] = the fields of name.hdr
read_header(name, md) ==
    [k \in DOMAIN md \cup {name} |-> IF k = name THEN Header(name) ELSE md[k]]

\* gdal.Open(path): a new dataset object, the n-th one opened
gdal_Open(path, n) == [tag |-> "dataset", id |-> n, desc |-> path]

\* data.ReadAsArray()
ReadAsArray(data) == disk[data.desc.file]

\* raster[pos] of numpy: an index in -size .. -1 counts from the end, an
\* index outside -size .. size-1 raises IndexError
InRange(raster, pos) ==
    /\ -Len(raster) <= pos[1] /\ pos[1] < Len(raster)
    /\ -Len(raster[1]) <= pos[2] /\ pos[2] < Len(raster[1])

Wrap(i, n) == IF i < 0 THEN i + n ELSE i

Cell(raster, pos) ==
    raster[Wrap(pos[1], Len(raster)) + 1][Wrap(pos[2], Len(raster[1])) + 1]

-----------------------------------------------------------------------------
(* coords.xy_coords, coords.distance, coords.points_within_distance *)

\* (row, column) of a point: the raster is north-up and west-left, the
\* origin its upper-left corner; no bounds check
xy_coords(lat_lon, ul, dims, size) ==
    <<(ul[1] - lat_lon[1]) \div dims[1], (lat_lon[2] - ul[2]) \div dims[2]>>

\* 10^4 * cos of 0, 10, .. 90 degrees
Cos4Table == <<10000, 9848, 9397, 8660, 7660, 6428, 5000, 3420, 1736, 0>>

Cos4(deg) == Cos4Table[(Abs(deg) \div 10) + 1]

\* 10^4 * sin^2(d/2) of d = 0, 10, .. 180 degrees
Hav4Table == <<0, 76, 302, 670, 1170, 1786, 2500, 3290, 4132, 5000, 5868,
               6710, 7500, 8214, 8830, 9330, 9698, 9924, 10000>>

Hav4(deg) ==
    LET d == Abs(deg) % 360
    IN  Hav4Table[((IF d > 180 THEN 360 - d ELSE d) \div 10) + 1]

\* the haversine of the central angle between two points, times 10^8
haversine(p1, p2) ==
    Hav4(p1[1] - p2[1]) * 10000
    + ((Cos4(p1[1]) * Cos4(p2[1])) \div 10000) * Hav4(p1[2] - p2[2])

\* the haversine of the central angle of km kilometres on a sphere of
\* radius 6371 km, times 10^8: sin^2 x = x^2 - x^4/3 with x = km/12742
hav_of_km(km) ==
    LET x2 == (km * km * 100) \div 16236
    IN  (x2 - ((x2 \div 100) * (x2 \div 100)) \div 300) * 100

\* distance(p1, p2) <= km
within_km(p1, p2, km) == haversine(p1, p2) <= hav_of_km(km)

Min(a, b) == IF a < b THEN a ELSE b

Max(a, b) == IF a > b THEN a ELSE b

\* half-extent in degrees of latitude of a circle of km kilometres
lat_extent(km) == (km \div 111) + 1

\* half-extent in degrees of longitude, taken at the latitude of the box
\* nearest to a pole
lon_extent(lat, km) ==
    LET far == Min(90, Abs(lat) + lat_extent(km))
        c == Cos4(((far + 9) \div 10) * 10)
    IN  IF c = 0 THEN 180 ELSE Min(180, ((km * 10000) \div (111 * c)) + 1)

\* the grid points within radius km of center, north to south and west to
\* east; the center alone when radius is 0
points_within_distance(center, radius, ul, dims) ==
    IF radius = 0 THEN <<center>>
    ELSE
    LET north == Min(90, center[1] + lat_extent(radius))
        south == Max(-90, center[1] - lat_extent(radius))
        west == center[2] - lon_extent(center[1], radius)
        east == center[2] + lon_extent(center[1], radius)
        iLo == -((north - ul[1]) \div dims[1])
        iHi == (ul[1] - south) \div dims[1]
        jLo == -((ul[2] - west) \div dims[2])
        jHi == (east - ul[2]) \div dims[2]
        w == jHi - jLo + 1
        n == IF iHi < iLo \/ w <= 0 THEN 0 ELSE (iHi - iLo + 1) * w
        box == [k \in 1..n |->
                   <<ul[1] - (iLo + ((k - 1) \div w)) * dims[1],
                     ul[2] + (jLo + ((k - 1) % w)) * dims[2]>>]
        Near(q) == within_km(center, q, radius)
    IN  SelectSeq(box, Near)

\* the origin and the cell size a header states
Geometry(name) ==
    <<<<Header(name).ulymap, Header(name).ulxmap>>,
      <<Header(name).ydim, Header(name).xdim>>>>

\* points_within_distance on the points, radii and layers at hand,
\* computed once
Neighbourhoods ==
    [g \in {Geometry(name) : name \in LayerNames} |->
        [p \in Points |->
            [r \in Radii |-> points_within_distance(p, r, g[1], g[2])]]]

-----------------------------------------------------------------------------
(* get_data.get_dataset and get_data.extract_attributes.  Each yields a    *)
(* record: the exception raised (NoExc when none), the cache and the       *)
(* metadata as the call leaves them, and the files it looked for, opened   *)
(* and read.                                                               *)

NotFound(file) ==
    [tag |-> "Exception", file |-> file, where |-> SearchedLocations]

\* line 29: loaded_datasets[file] = gdal.Open(path)
store(f, path) ==
    [k \in DOMAIN loaded_datasets \cup {f} |->
        IF k = f THEN gdal_Open(path, opens[f] + 1) ELSE loaded_datasets[k]]

\* lines 31-34, loaded the cache after lines 24-29
with_header(f, loaded, looked) ==
    [exc |-> NoExc, loaded |-> loaded,
     meta |-> IF f \notin DOMAIN metadata
              THEN read_header(without_bil(f), metadata) ELSE metadata,
     found |-> looked, opened |-> looked,
     headers |-> IF f \notin DOMAIN metadata THEN {without_bil(f)} ELSE {},
     data |-> loaded[f]]

\* line 29 moved above the test of line 27: the store comes before the raise
dataset_of_storing_first(f, path) ==
    IF f \in DOMAIN loaded_datasets THEN with_header(f, loaded_datasets, {})
    ELSE IF path = None
    THEN [exc |-> NotFound(f), loaded |-> store(f, path),
          meta |-> metadata, found |-> {f}, opened |-> {},
          headers |-> {}, data |-> None]
    ELSE with_header(f, store(f, path), {f})

\* lines 24-34, f the name with its extension
dataset_of(f, path) ==
    IF f \in DOMAIN loaded_datasets THEN with_header(f, loaded_datasets, {})
    ELSE IF path = None
    THEN [exc |-> NotFound(f), loaded |-> loaded_datasets,
          meta |-> metadata, found |-> {f}, opened |-> {},
          headers |-> {}, data |-> None]
    ELSE with_header(f, store(f, path), {f})

get_dataset(file) == dataset_of(with_bil(file), find_data(with_bil(file)))

\* line 42-44: metadata[file]['nodata'], -9999 on KeyError
no_value_of(file, meta) ==
    IF file \in DOMAIN meta /\ "nodata" \in DOMAIN meta[file]
    THEN meta[file].nodata
    ELSE DefaultNoData

\* lines 40-51, g what get_dataset yielded
attributes_of(file, g, raster) ==
    IF file \notin DOMAIN g.meta
    THEN [exc |-> KeyError, env |-> g, arrays |-> {with_bil(file)}]
    ELSE [exc |-> NoExc, env |-> g, arrays |-> {with_bil(file)},
          data |-> g.data, raster |-> raster,
          no_value |-> no_value_of(file, g.meta),
          ul |-> <<g.meta[file].ulymap, g.meta[file].ulxmap>>,
          dims |-> <<g.meta[file].ydim, g.meta[file].xdim>>,
          size |-> <<Len(raster), Len(raster[1])>>]

attributes_from(file, g) ==
    IF g.exc # NoExc THEN [exc |-> g.exc, env |-> g, arrays |-> {}]
    ELSE attributes_of(file, g, ReadAsArray(g.data))

extract_attributes(file) == attributes_from(file, get_dataset(file))

-----------------------------------------------------------------------------
(* get_values, get_average, get_spatial_variance.  The outcome of a call:  *)
(* the exception or the result list, and per point what the call did: the  *)
(* points it enumerated, the cells it read, the values it kept.            *)

Raised(a, exc, trace) ==
    [exc |-> exc, result |-> None, attrs |-> a, trace |-> trace]

Returned(a, steps) ==
    [exc |-> NoExc,
     result |-> [tag |-> "list",
                 items |-> [i \in 1..Len(steps) |-> steps[i].value]],
     attrs |-> a, trace |-> steps]

FirstOf(S) == CHOOSE i \in S : \A j \in S : i <= j

\* the steps up to and with the first that reads outside the array, all
\* of them when none does
Outcome(a, steps) ==
    IF \A i \in 1..Len(steps) : steps[i].ok THEN Returned(a, steps)
    ELSE Raised(a, IndexError,
                SubSeq(steps, 1,
                       FirstOf({i \in 1..Len(steps) : ~steps[i].ok})))

\* value == no_value on a floating-point value and a number
NumEq(value, x) == value.n = x * value.d

\* a test for truth in place of the comparison with no_value
hide_zero(value, no_value) == IF value.n = 0 THEN None ELSE value

\* line 67: None if value == no_value else value
hide_no_value(value, no_value) ==
    IF NumEq(value, no_value) THEN None ELSE value

\* line 66 and 67 for one point, pos its raster position
value_at(a, point, pos) ==
    [point |-> point, enumerated |-> FALSE, within |-> <<>>,
     positions |-> <<pos>>, ok |-> InRange(a.raster, pos), values |-> <<>>,
     value |-> IF InRange(a.raster, pos)
               THEN hide_no_value(float(Cell(a.raster, pos)), a.no_value)
               ELSE None]

values_of(a, points) ==
    IF a.exc # NoExc THEN Raised(a, a.exc, <<>>)
    ELSE Outcome(a, [i \in 1..Len(points) |->
                        value_at(a, points[i],
                                 xy_coords(points[i], a.ul, a.dims, a.size))])

get_values(file, points) == values_of(extract_attributes(file), points)

\* a loop that stops at the first no-data cell
keep_until_no_value(cells, no_value) ==
    IF \E k \in 1..Len(cells) : cells[k] = no_value
    THEN SubSeq(cells, 1,
                FirstOf({k \in 1..Len(cells) : cells[k] = no_value}) - 1)
    ELSE cells

\* lines 92 and 128:
\* [raster[pos] for pos in raster_positions if raster[pos] != no_value]
keep_values(cells, no_value) ==
    LET Valid(v) == v # no_value
    IN  SelectSeq(cells, Valid)

cells_at(a, positions) ==
    IF \A k \in 1..Len(positions) : InRange(a.raster, positions[k])
    THEN keep_values([k \in 1..Len(positions) |-> Cell(a.raster, positions[k])],
                     a.no_value)
    ELSE <<>>

\* lines 91-92 and 127-128
collected(a, point, within, positions) ==
    [point |-> point, enumerated |-> TRUE, within |-> within,
     positions |-> positions,
     ok |-> \A k \in 1..Len(positions) : InRange(a.raster, positions[k]),
     values |-> cells_at(a, positions)]

positions_of(a, within) ==
    [k \in 1..Len(within) |-> xy_coords(within[k], a.ul, a.dims, a.size)]

located(a, point, within) ==
    collected(a, point, within, positions_of(a, within))

\* the neighbourhood of one point: lines 90-92 and 126-128
collect(a, point, radius) ==
    located(a, point, Neighbourhoods[<<a.ul, a.dims>>][point][radius])

WithValue(c, value) ==
    [point |-> c.point, enumerated |-> c.enumerated, within |-> c.within,
     positions |-> c.positions, ok |-> c.ok, values |-> c.values,
     value |-> value]

\* a test len(values) <= 1 in place of len(values) == 0
average_of_several(c) ==
    WithValue(c, IF Len(c.values) <= 1 THEN None ELSE Mean(c.values))

\* lines 93-95
average_of(c) ==
    WithValue(c, IF Len(c.values) = 0 THEN None ELSE Mean(c.values))

averages_of(a, points, radius) ==
    IF a.exc # NoExc THEN Raised(a, a.exc, <<>>)
    ELSE Outcome(a, [i \in 1..Len(points) |->
                        average_of(collect(a, points[i], radius))])

get_average(file, points, radius) ==
    averages_of(extract_attributes(file), points, radius)

\* the latitude north and south of which no variance is computed
PolarLimit == 60

\* the test without abs, and the test with >= for >
is_north_of_limit(point) == point[1] > PolarLimit

is_polar_or_on_limit(point) == Abs(point[1]) >= PolarLimit

\* line 122: abs(point[0]) > 60
is_polar(point) == Abs(point[1]) > PolarLimit

\* lines 123-124: result.append(None); continue
skipped(point) ==
    [point |-> point, enumerated |-> FALSE, within |-> <<>>,
     positions |-> <<>>, ok |-> TRUE, values |-> <<>>, value |-> None]

\* lines 129-131
variance_of(c) ==
    WithValue(c, IF Len(c.values) = 0 THEN None ELSE Variance(c.values))

variances_of(a, points, radius) ==
    IF a.exc # NoExc THEN Raised(a, a.exc, <<>>)
    ELSE Outcome(a, [i \in 1..Len(points) |->
                        IF is_polar(points[i]) THEN skipped(points[i])
                        ELSE variance_of(collect(a, points[i], radius))])

get_spatial_variance(file, points, radius) ==
    variances_of(extract_attributes(file), points, radius)

-----------------------------------------------------------------------------
(* The calls a single-threaded caller makes *)

Threads == 1..NThreads

NoCall ==
    [op |-> "none", file |-> <<>>, points |-> <<>>, radius |-> 0,
     exc |-> NoExc, result |-> None, trace |-> <<>>]

Count(S, x) == IF x \in S THEN 1 ELSE 0

\* the state a call to get_dataset leaves, g the record it yields
Leave(g) ==
    /\ loaded_datasets' = g.loaded
    /\ metadata' = g.meta
    /\ opens' = [f \in BilFiles |-> opens[f] + Count(g.opened, f)]
    /\ finds' = [f \in BilFiles |-> finds[f] + Count(g.found, f)]
    /\ headerReads' =
           [n \in HeaderNames |-> headerReads[n] + Count(g.headers, n)]

Sampled(op, file, points, radius, out) ==
    /\ ncalls < MaxCalls
    /\ ncalls' = ncalls + 1
    /\ Leave(out.attrs.env)
    /\ arrayReads' =
           [f \in BilFiles |-> arrayReads[f] + Count(out.attrs.arrays, f)]
    /\ last' = [op |-> op, file |-> file, points |-> points,
                radius |-> radius, exc |-> out.exc, result |-> out.result,
                trace |-> out.trace]
    /\ UNCHANGED <<disk, lat_lons, layer, tpc, tfile, tpath, tret>>

GetValues(file, points) ==
    Sampled("get_values", file, points, 0, get_values(file, points))

GetAverage(file, points, radius) ==
    Sampled("get_average", file, points, radius,
            get_average(file, points, radius))

GetSpatialVariance(file, points, radius) ==
    Sampled("get_spatial_variance", file, points, radius,
            get_spatial_variance(file, points, radius))

GetDataset(file) ==
    LET g == get_dataset(file)
    IN  /\ ncalls < MaxCalls
        /\ ncalls' = ncalls + 1
        /\ Leave(g)
        /\ last' = [op |-> "get_dataset", file |-> file, points |-> <<>>,
                    radius |-> 0, exc |-> g.exc, result |-> g.data,
                    trace |-> <<>>]
        /\ UNCHANGED <<disk, lat_lons, layer, arrayReads,
                       tpc, tfile, tpath, tret>>

Fresh ==
    /\ loaded_datasets = <<>>
    /\ metadata = <<>>
    /\ opens = [f \in BilFiles |-> 0]
    /\ finds = [f \in BilFiles |-> 0]
    /\ headerReads = [n \in HeaderNames |-> 0]
    /\ arrayReads = [f \in BilFiles |-> 0]
    /\ ncalls = 0
    /\ last = NoCall
    /\ tpc = [t \in Threads |-> "idle"]
    /\ tfile = [t \in Threads |-> <<>>]
    /\ tpath = [t \in Threads |-> None]
    /\ tret = [t \in Threads |-> None]

\* one layer, every raster, every list of points: the doctests' sessions
InitSampling ==
    /\ \E raster \in Rasters : disk = [f \in DataFiles |-> raster]
    /\ lat_lons \in PointLists
    /\ layer \in LayerNames
    /\ Fresh

NextSampling ==
    \/ GetValues(layer, lat_lons)
    \/ \E radius \in Radii : GetAverage(layer, lat_lons, radius)
    \/ \E radius \in Radii : GetSpatialVariance(layer, lat_lons, radius)

SpecSampling == InitSampling /\ [][NextSampling]_vars

\* the raster of the sessions that exercise the cache
DoctestRaster == <<<<DefaultNoData, 0, 4>>>>

\* any name, with or without the extension, found or not
Init ==
    /\ disk = [f \in DataFiles |-> DoctestRaster]
    /\ lat_lons \in SeqsUpTo(Points, 1)
    /\ layer = <<"bio1">>
    /\ Fresh

Next ==
    \E file \in FileNames :
        \/ GetDataset(file)
        \/ GetValues(file, lat_lons)
        \/ \E radius \in Radii : GetAverage(file, lat_lons, radius)
        \/ \E radius \in Radii : GetSpatialVariance(file, lat_lons, radius)

Spec == Init /\ [][Next]_vars

-----------------------------------------------------------------------------
(* get_dataset called from several threads: one step per statement, the    *)
(* interpreter may switch threads between any two                          *)

\* a thread calls get_dataset(file); line 23
T_Call(t, file) ==
    /\ tpc[t] \in {"idle", "done", "raised"}
    /\ ncalls < MaxCalls
    /\ ncalls' = ncalls + 1
    /\ tfile' = [tfile EXCEPT ![t] = with_bil(file)]
    /\ tpath' = [tpath EXCEPT ![t] = None]
    /\ tret' = [tret EXCEPT ![t] = None]
    /\ tpc' = [tpc EXCEPT ![t] = "check"]
    /\ UNCHANGED <<disk, lat_lons, layer, loaded_datasets, metadata, opens,
                   finds, headerReads, arrayReads, last>>

\* line 24: if not file in loaded_datasets
T_Check(t) ==
    /\ tpc[t] = "check"
    /\ tpc' = [tpc EXCEPT ![t] = IF tfile[t] \in DOMAIN loaded_datasets
                                 THEN "header" ELSE "find"]
    /\ UNCHANGED <<disk, lat_lons, layer, loaded_datasets, metadata, opens,
                   finds, headerReads, arrayReads, ncalls, last, tfile,
                   tpath, tret>>

\* lines 26-28: path = find_data(file), raise when it is None
T_Find(t) ==
    /\ tpc[t] = "find"
    /\ tpath' = [tpath EXCEPT ![t] = find_data(tfile[t])]
    /\ finds' = [finds EXCEPT ![tfile[t]] = @ + 1]
    /\ tpc' = [tpc EXCEPT ![t] = IF find_data(tfile[t]) = None
                                 THEN "raised" ELSE "open"]
    /\ UNCHANGED <<disk, lat_lons, layer, loaded_datasets, metadata, opens,
                   headerReads, arrayReads, ncalls, last, tfile, tret>>

\* line 29: loaded_datasets[file] = gdal.Open(path)
T_Open(t) ==
    /\ tpc[t] = "open"
    /\ opens' = [opens EXCEPT ![tfile[t]] = @ + 1]
    /\ loaded_datasets' =
           [k \in DOMAIN loaded_datasets \cup {tfile[t]} |->
               IF k = tfile[t] THEN gdal_Open(tpath[t], opens[tfile[t]] + 1)
               ELSE loaded_datasets[k]]
    /\ tpc' = [tpc EXCEPT ![t] = "header"]
    /\ UNCHANGED <<disk, lat_lons, layer, metadata, finds, headerReads,
                   arrayReads, ncalls, last, tfile, tpath, tret>>

\* lines 31-32: if not file in metadata: read_header(file[:-len('.bil')])
T_Header(t) ==
    /\ tpc[t] = "header"
    /\ IF tfile[t] \notin DOMAIN metadata
       THEN /\ metadata' = read_header(without_bil(tfile[t]), metadata)
            /\ headerReads' =
                   [headerReads EXCEPT ![without_bil(tfile[t])] = @ + 1]
       ELSE UNCHANGED <<metadata, headerReads>>
    /\ tpc' = [tpc EXCEPT ![t] = "return"]
    /\ UNCHANGED <<disk, lat_lons, layer, loaded_datasets, opens, finds,
                   arrayReads, ncalls, last, tfile, tpath, tret>>

\* line 34: return loaded_datasets[file]
T_Return(t) ==
    /\ tpc[t] = "return"
    /\ tret' = [tret EXCEPT ![t] = loaded_datasets[tfile[t]]]
    /\ tpc' = [tpc EXCEPT ![t] = "done"]
    /\ UNCHANGED <<disk, lat_lons, layer, loaded_datasets, metadata, opens,
                   finds, headerReads, arrayReads, ncalls, last, tfile,
                   tpath>>

InitThreads ==
    /\ disk = [f \in DataFiles |-> DoctestRaster]
    /\ lat_lons = <<>>
    /\ layer = <<"bio1">>
    /\ Fresh

NextThreads ==
    \E t \in Threads :
        \/ \E file \in FileNames : T_Call(t, file)
        \/ T_Check(t)
        \/ T_Find(t)
        \/ T_Open(t)
        \/ T_Header(t)
        \/ T_Return(t)

SpecThreads == InitThreads /\ [][NextThreads]_vars

-----------------------------------------------------------------------------
(* What the design document says of a layer, a point and a neighbourhood   *)

\* the layer's no-data sentinel: the header's, -9999 when it names none
Sentinel(name) ==
    IF "nodata" \in DOMAIN Header(name) THEN Header(name).nodata ELSE -9999

\* the CellIndex of a point
CellIndex(name, point) ==
    xy_coords(point, Geometry(name)[1], Geometry(name)[2], RasterSize)

\* a CellIndex is valid iff 0 <= row < row count and 0 <= column < column count
ValidIndex(index) ==
    /\ 0 <= index[1] /\ index[1] < RasterSize[1]
    /\ 0 <= index[2] /\ index[2] < RasterSize[2]

InExtent(name, point) == ValidIndex(CellIndex(name, point))

\* the raw value of a valid cell of the layer's raster
RawValue(name, index) == disk[with_bil(name)][index[1] + 1][index[2] + 1]

RawAt(name, point) == RawValue(name, CellIndex(name, point))

Neighbourhood(name, point, radius) ==
    Neighbourhoods[Geometry(name)][point][radius]

NeighbourhoodInExtent(name, point, radius) ==
    \A k \in 1..Len(Neighbourhood(name, point, radius)) :
        InExtent(name, Neighbourhood(name, point, radius)[k])

\* the values of the neighbourhood's cells that differ from the sentinel
DataOf(name, cells) ==
    LET IsData(v) == v # Sentinel(name)
    IN  SelectSeq(cells, IsData)

NeighbourhoodData(name, point, radius) ==
    DataOf(name, [k \in 1..Len(Neighbourhood(name, point, radius)) |->
                     RawAt(name, Neighbourhood(name, point, radius)[k])])

Sampling == {"get_values", "get_average", "get_spatial_variance"}

Items == last.result.items

Positions == 1..Len(last.points)

Zero == [tag |-> "float", n |-> 0, d |-> 1]

\* the point lies on a crossing of the layer's grid lines
OnGrid(name, point) ==
    /\ (Geometry(name)[1][1] - point[1]) % Geometry(name)[2][1] = 0
    /\ (point[2] - Geometry(name)[1][2]) % Geometry(name)[2][2] = 0

-----------------------------------------------------------------------------
(* C1: get_values returns one result per input point, in input order: for  *)
(* in-extent points the i-th result is None iff the raw value of the i-th  *)
(* point's cell is the layer's no-data sentinel, and otherwise that value  *)
(* as a floating-point number.                                             *)

MeanIs(item, data) ==
    IF data = <<>> THEN item = None
    ELSE /\ item # None
         /\ item.n * Len(data) = sum(data) * item.d

C2_MeanOfData ==
    (/\ last.op = "get_average"
     /\ \A i \in Positions :
            NeighbourhoodInExtent(last.file, last.points[i], last.radius))
    => /\ last.exc = NoExc
       /\ Len(Items) = Len(last.points)
       /\ \A i \in Positions :
              /\ MeanIs(Items[i], NeighbourhoodData(last.file, last.points[i],
                                                    last.radius))
              /\ last.trace[i].values =
                     NeighbourhoodData(last.file, last.points[i], last.radius)

\* a neighbourhood of three cells in the extent, one of them no-data, the
\* mean of the other two not a whole number
C2_Witness ==
    /\ last.op = "get_average"
    /\ last.exc = NoExc
    /\ Len(last.points) = 1
    /\ NeighbourhoodInExtent(last.file, last.points[1], last.radius)
    /\ Len(Neighbourhood(last.file, last.points[1], last.radius)) = 3
    /\ Len(last.trace[1].values) = 2
    /\ Items[1] # None
    /\ Items[1].d = 2

(* C3: get_average(layer, points, 0) equals get_values(layer, points):    *)
(* with radius 0 the neighbourhood of a point is its own cell.            *)

SameOutcome(result, exc, out) == result = out.result /\ exc = out.exc

C3_ZeroRadiusAverage ==
    (last.op = "get_average" /\ last.radius = 0)
    => SameOutcome(last.result, last.exc, get_values(last.file, last.points))

C3_Witness ==
    /\ last.op = "get_average"
    /\ last.radius = 0
    /\ last.exc = NoExc
    /\ Len(last.points) = 2
    /\ Items[1] = None
    /\ Items[2] # None
    /\ Items[2].n # 0

(* C4, as claimed: for every in-extent point, of any latitude,            *)
(* get_spatial_variance with radius 0 is 0.0 when the cell of the point   *)
(* holds data and None when it holds the sentinel.                        *)

ZeroOrNone(name, point, item) ==
    item = IF RawAt(name, point) = Sentinel(name) THEN None ELSE Zero

C4_AsClaimed ==
    (/\ last.op = "get_spatial_variance"
     /\ last.radius = 0
     /\ \A i \in Positions : InExtent(last.file, last.points[i]))
    => /\ last.exc = NoExc
       /\ \A i \in Positions : ZeroOrNone(last.file, last.points[i], Items[i])

(* C4, amended: the same for the points of absolute latitude at most 60.  *)

C4_ZeroRadiusVariance ==
    (/\ last.op = "get_spatial_variance"
     /\ last.radius = 0
     /\ \A i \in Positions : InExtent(last.file, last.points[i]))
    => /\ last.exc = NoExc
       /\ \A i \in Positions :
              Abs(last.points[i][1]) <= 60
                  => ZeroOrNone(last.file, last.points[i], Items[i])

C4_Witness ==
    /\ last.op = "get_spatial_variance"
    /\ last.radius = 0
    /\ last.exc = NoExc
    /\ Len(last.points) = 2
    /\ \A i \in Positions :
           Abs(last.points[i][1]) <= 60 /\ InExtent(last.file, last.points[i])
    /\ Items[1] = Zero
    /\ Items[2] = None

(* C5: polar exclusion.  get_spatial_variance gives None at the position  *)
(* of every point of absolute latitude above 60, for every radius and     *)
(* raster, and neither enumerates a neighbourhood nor reads a cell for    *)
(* it; a point of absolute latitude 60 is not excluded; the results of    *)
(* the other points are those of a call with that point alone.            *)

Alone(name, point, radius) ==
    get_spatial_variance(name, <<point>>, radius).result.items[1]

C5_PolarExclusion ==
    last.op = "get_spatial_variance"
    => /\ \A i \in 1..Len(last.trace) :
              IF Abs(last.points[i][1]) > 60
              THEN /\ last.trace[i].value = None
                   /\ ~last.trace[i].enumerated
                   /\ last.trace[i].positions = <<>>
              ELSE last.trace[i].enumerated
       /\ last.exc = NoExc
              => /\ Len(Items) = Len(last.points)
                 /\ \A i \in Positions :
                        Items[i] = IF Abs(last.points[i][1]) > 60 THEN None
                                   ELSE Alone(last.file, last.points[i],
                                              last.radius)

\* a point south of -60 whose cell holds data, beside a point on -60 with
\* a variance that is not zero
C5_Witness ==
    /\ last.op = "get_spatial_variance"
    /\ last.radius > 0
    /\ last.exc = NoExc
    /\ Len(last.points) = 2
    /\ last.points[1][1] < -60
    /\ InExtent(last.file, last.points[1])
    /\ RawAt(last.file, last.points[1]) # Sentinel(last.file)
    /\ Items[1] = None
    /\ last.points[2][1] = -60
    /\ Items[2] # None
    /\ Items[2].n > 0

(* C6, as claimed: for a point of absolute latitude at most 60 and radii  *)
(* r1 <= r2, get_spatial_variance collects at least as many valid cells  *)
(* for r2 as for r1, and its result for r2 is greater than or equal to    *)
(* its result for r1.                                                     *)

\* the step of a call of get_spatial_variance with the point alone
StepAlone(name, point, radius) ==
    get_spatial_variance(name, <<point>>, radius).trace[1]

\* a <= b on results as Python orders them: None is below every number
VarLeq(a, b) == a = None \/ (b # None /\ FloatLeq(a, b))

\* the step s2 of a radius takes in as much as the step s1 of a smaller one
Wider(s1, s2) ==
    /\ Len(s1.values) <= Len(s2.values)
    /\ VarLeq(s1.value, s2.value)

\* for a smaller radius whose call returns
AsClaimed(s1, s2) == s1.ok => Wider(s1, s2)

C6_AsClaimed ==
    (last.op = "get_spatial_variance" /\ last.exc = NoExc)
    => \A i \in Positions :
           Abs(last.points[i][1]) <= 60
               => \A r1 \in {r \in Radii : r <= last.radius} :
                      AsClaimed(StepAlone(last.file, last.points[i], r1),
                                last.trace[i])

(* C6, amended: for a point of absolute latitude at most 60 and radii     *)
(* r1 <= r2, with r1 > 0 or the point on a crossing of the grid lines,    *)
(* the valid cells collected for r2 are at least as many as for r1; the   *)
(* result for r2 is greater than or equal to the result for r1 when r1    *)
(* collects at most one valid cell.                                       *)

WiderCount(s1, s2) ==
    s1.ok => /\ Len(s1.values) <= Len(s2.values)
             /\ Len(s1.values) <= 1 => VarLeq(s1.value, s2.value)

C6_RadiusMonotone ==
    (last.op = "get_spatial_variance" /\ last.exc = NoExc)
    => \A i \in Positions :
           Abs(last.points[i][1]) <= 60
               => \A r1 \in {r \in Radii : r <= last.radius} :
                      (r1 > 0 \/ OnGrid(last.file, last.points[i]))
                          => WiderCount(StepAlone(last.file, last.points[i],
                                                  r1),
                                        last.trace[i])

\* a call whose radius takes in three cells, two of them with data, on a
\* point where a smaller positive radius takes in one cell with data
C6_Witness ==
    /\ last.op = "get_spatial_variance"
    /\ last.exc = NoExc
    /\ Len(last.points) = 1
    /\ Abs(last.points[1][1]) <= 60
    /\ Len(last.trace[1].positions) = 3
    /\ Len(last.trace[1].values) = 2
    /\ Items[1] # None
    /\ Items[1].n > 0
    /\ \E r1 \in Radii :
           /\ 0 < r1 /\ r1 < last.radius
           /\ StepAlone(last.file, last.points[1], r1).ok
           /\ Len(StepAlone(last.file, last.points[1], r1).values) = 1

(* C7, as claimed: over any sequence of calls the dataset open, the       *)
(* header read and the raster-array read each happen at most once per     *)
(* layer name, and a cache entry once inserted is never removed or        *)
(* replaced.                                                              *)

C7_LoadOnce ==
    /\ \A f \in BilFiles : opens[f] <= 1 /\ arrayReads[f] <= 1
    /\ \A n \in HeaderNames : headerReads[n] <= 1
    /\ \A f \in DOMAIN loaded_datasets : loaded_datasets[f].id = 1

(* C8: when the name cannot be resolved, a sampling call raises the       *)
(* not-found exception that names the file and the locations searched,    *)
(* after exactly one find_data call, returns no result, opens and reads   *)
(* nothing and leaves loaded_datasets as it was.                          *)

Unresolved(file) == find_data(with_bil(file)) = None

C8_LayerNotFound ==
    [][(/\ ncalls' = ncalls + 1
        /\ last'.op \in Sampling
        /\ Unresolved(last'.file))
       => /\ last'.exc.tag = "Exception"
          /\ last'.exc.file = with_bil(last'.file)
          /\ last'.exc.where = SearchedLocations
          /\ last'.result = None
          /\ last'.trace = <<>>
          /\ loaded_datasets' = loaded_datasets
          /\ with_bil(last'.file) \notin DOMAIN loaded_datasets'
          /\ finds' = [finds EXCEPT ![with_bil(last'.file)] = @ + 1]
          /\ opens' = opens
          /\ arrayReads' = arrayReads]_vars

\* the second failed call on the same name: find_data was called again
C8_Witness ==
    /\ last.op \in Sampling
    /\ Unresolved(last.file)
    /\ last.exc.tag = "Exception"
    /\ finds[with_bil(last.file)] = 2
    /\ with_bil(last.file) \notin DOMAIN loaded_datasets

(* C9, as claimed: whenever an input point or an enumerated point of a    *)
(* neighbourhood maps to a row or a column outside the raster, the        *)
(* sampling call fails with a bounds error; it returns no result.         *)

C9_BoundsError ==
    (/\ last.op \in Sampling
     /\ \E i \in 1..Len(last.trace) :
            \E k \in 1..Len(last.trace[i].positions) :
                ~ValidIndex(last.trace[i].positions[k]))
    => last.exc = IndexError /\ last.result = None

(* C10, as claimed: for every interleaving of threads calling get_dataset *)
(* with the same name not yet loaded, the file is opened at most once and *)
(* the threads obtain the same dataset object.                            *)

C10_AtomicFirstLoad ==
    /\ \A f \in BilFiles : opens[f] <= 1
    /\ \A t \in Threads : \A u \in Threads :
           (tpc[t] = "done" /\ tpc[u] = "done" /\ tfile[t] = tfile[u])
               => tret[t] = tret[u]

====
